---- MODULE Spec2Model ----
(***************************************************************************)
(* Doctor roster: schedule store, constraint validator, auto-builder and   *)
(* the schedule life cycle, modelled from backend/app.                     *)
(*                                                                         *)
(* A date is the number of days since 2024-12-31 (2025-01-01 is 1), so     *)
(* date +/- timedelta(days=1) is +/- 1.                                    *)
(***************************************************************************)
EXTENDS Integers, Sequences, FiniteSets, TLC

VARIABLES doctors, templates, leaves, schedules, assignments, response,
          builds, edits, pc, req, tokens, password_hash, clock

vars == <<doctors, templates, leaves, schedules, assignments, response,
          builds, edits, pc, req, tokens, password_hash, clock>>

(***************************************************************************)
(* Bounds of the model                                                     *)
(***************************************************************************)
MaxBuilds == 2        \* auto-build requests per behaviour
MaxEdits == 1         \* manual assignment requests per behaviour
MaxManualDay == 1     \* manual requests use days 2..MaxManualDay+1 of the month
MaxMinDoctors == 2    \* largest min_doctors of a coverage template
MaxTime == 2          \* distinct values of datetime.utcnow()
MaxTokens == 3        \* password-reset tokens per behaviour
MaxClock == 3         \* hours the clock of the password reset runs

(***************************************************************************)
(* Program constants                                                       *)
(***************************************************************************)
NULL == 0
SaudiCap == 160
NonSaudiCap == 192
ConsecutivePenalty == 1000
WarningLimit == 50
TokenHours == 1

(***************************************************************************)
(* Catalog: centers and shifts (fixed rows), doctors, templates, leaves    *)
(***************************************************************************)
CenterIds == {1, 2}
ShiftIds == {1, 2}
DoctorIds == {1, 2, 3}
ScheduleIds == {1, 2}
AdminIds == {1, 2}

Centers == [c \in CenterIds |->
              IF c = 1 THEN [code |-> "C1", allowed_shifts |-> {"M8", "N12"}]
                       ELSE [code |-> "C2", allowed_shifts |-> {"M8"}]]

Shifts == [s \in ShiftIds |->
              IF s = 1 THEN [code |-> "M8", hours |-> 8, is_overnight |-> FALSE]
                       ELSE [code |-> "N12", hours |-> 12, is_overnight |-> TRUE]]

LeaveStatuses == {"pending", "approved", "denied", "cancelled"}
ScheduleStatuses == {"draft", "published", "archived"}

(***************************************************************************)
(* Calendar                                                                *)
(***************************************************************************)
IsLeap(year) == (year % 4 = 0 /\ year % 100 # 0) \/ year % 400 = 0

DaysInMonth(year, month) ==
    IF month \in {1, 3, 5, 7, 8, 10, 12} THEN 31
    ELSE IF month = 2 THEN (IF IsLeap(year) THEN 29 ELSE 28)
    ELSE 30

RECURSIVE DaysBeforeMonth(_, _)
DaysBeforeMonth(year, month) ==
    IF month = 1 THEN 0
    ELSE DaysBeforeMonth(year, month - 1) + DaysInMonth(year, month - 1)

RECURSIVE DaysBeforeYear(_)
DaysBeforeYear(year) ==
    IF year <= 2025 THEN 0
    ELSE DaysBeforeYear(year - 1) + (IF IsLeap(year - 1) THEN 366 ELSE 365)

\* date_type(year, month, day)
DateOf(year, month, day) == DaysBeforeYear(year) + DaysBeforeMonth(year, month) + day

MonthStart(sch) == DateOf(sch.year, sch.month, 1)

MonthEnd(sch) ==
    IF sch.month = 12 THEN DateOf(sch.year + 1, 1, 1) - 1
    ELSE DateOf(sch.year, sch.month + 1, 1) - 1

(***************************************************************************)
(* Queries shared by the builder and the validator                         *)
(***************************************************************************)
RECURSIVE SumHours(_)
SumHours(rows) ==
    IF rows = {} THEN 0
    ELSE LET a == CHOOSE x \in rows : TRUE
         IN  (IF a.shift_id \in ShiftIds THEN Shifts[a.shift_id].hours ELSE 0)
             + SumHours(rows \ {a})

RowsOf(db, sid) == {a \in db : a.schedule_id = sid}

SlotCount(db, sid, center_id, shift_id, date) ==
    Cardinality({a \in db : /\ a.schedule_id = sid
                            /\ a.center_id = center_id
                            /\ a.shift_id = shift_id
                            /\ a.date = date})

\* UniqueConstraint("schedule_id", "doctor_id", "date")
UniqueKeyHolds(db) ==
    \A a, b \in db :
        (a.schedule_id = b.schedule_id /\ a.doctor_id = b.doctor_id /\ a.date = b.date)
            => a = b

RECURSIVE SeqOfSetDescending(_)
\* faulty variant: the rows come in descending order
SeqOfSetDescending(S) ==
    IF S = {} THEN <<>>
    ELSE LET m == CHOOSE x \in S : \A y \in S : x >= y
         IN  <<m>> \o SeqOfSetDescending(S \ {m})

RECURSIVE SeqOfSet(_)
\* rows of a query without ORDER BY, taken in primary-key order
SeqOfSet(S) ==
    IF S = {} THEN <<>>
    ELSE LET m == CHOOSE x \in S : \A y \in S : x <= y
         IN  <<m>> \o SeqOfSet(S \ {m})

(***************************************************************************)
(* Auto-builder (services/auto_builder.py)                                 *)
(***************************************************************************)
\* faulty variant: the last day of a leave is not part of it
IsOnLeaveEndExclusive(lv, doctor_id, check_date) ==
    \E l \in lv : /\ l.doctor_id = doctor_id
                  /\ l.status = "approved"
                  /\ l.start_date <= check_date
                  /\ l.end_date > check_date

IsOnLeave(lv, doctor_id, check_date) ==
    \E l \in lv : /\ l.doctor_id = doctor_id
                      /\ l.status = "approved"
                      /\ l.start_date <= check_date
                      /\ l.end_date >= check_date

\* faulty variant: everybody gets the non-saudi cap
GetMaxHoursOneCap(doctor_id) == NonSaudiCap

GetMaxHours(doctor_id) ==
    IF doctors[doctor_id].nationality = "saudi" THEN SaudiCap ELSE NonSaudiCap

\* faulty variant: the tallies are taken from the rows stored before the clear
InitTrackingBeforeClear(db, sid) ==
    [d \in {x \in DoctorIds : doctors[x].is_active} |->
        LET mine == {a \in assignments : a.doctor_id = d /\ a.schedule_id = sid}
        IN  [hours  |-> SumHours(mine),
             dates  |-> {a.date : a \in mine},
             nights |-> {a.date : a \in {x \in mine : Shifts[x.shift_id].is_overnight}}]]

InitTracking(db, sid) ==
    [d \in {x \in DoctorIds : doctors[x].is_active} |->
        LET mine == {a \in db : a.doctor_id = d /\ a.schedule_id = sid}
        IN  [hours  |-> SumHours(mine),
             dates  |-> {a.date : a \in mine},
             nights |-> {a.date : a \in {x \in mine : Shifts[x.shift_id].is_overnight}}]]

\* faulty variant: the builder forgets the dates a doctor already works
EligibleIgnoringAssignedDates(lv, tr, d, shift_id, date) ==
    /\ ~IsOnLeave(lv, d, date)
    /\ tr[d].hours + Shifts[shift_id].hours <= GetMaxHours(d)

Eligible(lv, tr, d, shift_id, date) ==
    /\ date \notin tr[d].dates
    /\ ~IsOnLeave(lv, d, date)
    /\ tr[d].hours + Shifts[shift_id].hours <= GetMaxHours(d)

\* faulty variant: a penalty smaller than the hours a doctor can have
ScoreSmallPenalty(tr, d, shift_id, date) ==
    tr[d].hours
    + (IF /\ Shifts[shift_id].is_overnight
          /\ (date - 1 \in tr[d].nights \/ date + 1 \in tr[d].nights)
       THEN 100 ELSE 0)

Score(tr, d, shift_id, date) ==
    tr[d].hours
    + (IF /\ Shifts[shift_id].is_overnight
          /\ (date - 1 \in tr[d].nights \/ date + 1 \in tr[d].nights)
       THEN ConsecutivePenalty ELSE 0)

\* faulty variant: the builder does not look at the center's list
TemplateShiftRejectedNever(center_id, shift_id) == FALSE

\* if shift.code not in (center.allowed_shifts or []): return None
TemplateShiftRejected(center_id, shift_id) ==
    Shifts[shift_id].code \notin Centers[center_id].allowed_shifts

FindBestDoctor(lv, doctorList, center_id, shift_id, date, tr) ==
    IF shift_id \notin ShiftIds \/ center_id \notin CenterIds THEN NULL
    ELSE IF TemplateShiftRejected(center_id, shift_id) THEN NULL
    ELSE LET cands == SelectSeq(doctorList, LAMBDA d : Eligible(lv, tr, d, shift_id, date))
         IN  IF cands = <<>> THEN NULL
             ELSE \* candidates.sort(key=score) is stable: first of the lowest score
                  LET i == CHOOSE k \in 1..Len(cands) :
                             \A j \in 1..Len(cands) :
                                /\ Score(tr, cands[j], shift_id, date)
                                      >= Score(tr, cands[k], shift_id, date)
                                /\ (j < k => Score(tr, cands[j], shift_id, date)
                                                > Score(tr, cands[k], shift_id, date))
                  IN  cands[i]

\* faulty variant: one slot too few
NeededOffByOne(t, existing_count) == t.min_doctors - existing_count - 1

\* needed = template.min_doctors - existing_count
Needed(t, existing_count) == t.min_doctors - existing_count

\* The value of a one-element set; binding an accumulator through it makes
\* the accumulator a value before the next iteration reads it.
Only(S) == CHOOSE x \in S : TRUE

\* one iteration of "for _ in range(needed)": create the row and update the
\* tracking, or count the slot as unfilled
SlotStep(lv, doctorList, sid, t, date, st) ==
    Only({ IF doc # NULL
           THEN LET sh  == Shifts[t.shift_id]
                    row == [schedule_id |-> sid, doctor_id |-> doc,
                            center_id |-> t.center_id, shift_id |-> t.shift_id,
                            date |-> date]
                IN  [st EXCEPT
                        !.added = @ \cup {row},
                        !.dup = @ \/ row \in st.added,
                        !.created = @ + 1,
                        !.tr[doc].hours = @ + sh.hours,
                        !.tr[doc].dates = @ \cup {date},
                        !.tr[doc].nights = IF sh.is_overnight THEN @ \cup {date} ELSE @]
           ELSE [st EXCEPT !.unfilled = @ + 1]
         : doc \in {FindBestDoctor(lv, doctorList, t.center_id, t.shift_id, date, st.tr)} })

RECURSIVE FillSlot(_, _, _, _, _, _, _)
\* for _ in range(needed)
FillSlot(lv, needed, doctorList, sid, t, date, st) ==
    IF needed <= 0 THEN st
    ELSE Only({ FillSlot(lv, needed - 1, doctorList, sid, t, date, st2)
                : st2 \in {SlotStep(lv, doctorList, sid, t, date, st)} })

RECURSIVE FillTemplates(_, _, _, _, _, _, _, _)
\* for template in templates
FillTemplates(lv, i, tlist, doctorList, db, sid, date, st) ==
    IF i > Len(tlist) THEN st
    ELSE LET t == templates[tlist[i]]
             existing_count == SlotCount(db, sid, t.center_id, t.shift_id, date)
             needed == Needed(t, existing_count)
         IN  Only({ FillTemplates(lv, i + 1, tlist, doctorList, db, sid, date, st2)
                    : st2 \in {FillSlot(lv, needed, doctorList, sid, t, date, st)} })

RECURSIVE FillDays(_, _, _, _, _, _, _, _)
\* while current_date <= end_date
FillDays(lv, current_date, end_date, tlist, doctorList, db, sid, st) ==
    IF current_date > end_date THEN st
    ELSE Only({ FillDays(lv, current_date + 1, end_date, tlist, doctorList, db, sid, st2)
                : st2 \in {FillTemplates(lv, 1, tlist, doctorList, db, sid, current_date, st)} })

\* faulty variant: clear_existing is ignored
AfterClearNever(rows, sid, clear_existing) == rows

\* faulty variant: the clear takes the rows of every schedule
AfterClearEverySchedule(rows, sid, clear_existing) ==
    IF clear_existing THEN {} ELSE rows

\* faulty variant: the schedule is cleared whatever the request says
AfterClearAlways(rows, sid, clear_existing) == {a \in rows : a.schedule_id # sid}

\* if clear_existing: delete the assignments of the schedule, flush
AfterClear(rows, sid, clear_existing) ==
    IF clear_existing THEN {a \in rows : a.schedule_id # sid} ELSE rows

\* AutoBuilder.build_schedule up to (not including) the final commit, reading
\* the leave table lv and the assignment table rows; db is the session's view
\* after the optional delete + flush.
BuildOn(lv, rows, sid, clear_existing) ==
    LET db == AfterClear(rows, sid, clear_existing)
        tr0 == InitTracking(db, sid)
        tlist == SeqOfSet({t \in DOMAIN templates : templates[t].is_mandatory})
        doctorList == SeqOfSet({d \in DoctorIds : doctors[d].is_active})
        early == [db |-> db, added |-> {}, dup |-> FALSE, committed |-> FALSE,
                  success |-> FALSE, assignments_created |-> 0,
                  slots_unfilled |-> 0, warnings |-> 0]
    IN  IF tlist = <<>> THEN early
        ELSE IF doctorList = <<>> THEN early
        ELSE LET st == FillDays(lv, MonthStart(schedules[sid]), MonthEnd(schedules[sid]),
                                tlist, doctorList, db, sid,
                                [tr |-> tr0, added |-> {}, dup |-> FALSE,
                                 created |-> 0, unfilled |-> 0])
             IN  [db |-> db, added |-> st.added, dup |-> st.dup, committed |-> TRUE,
                  success |-> st.unfilled = 0,
                  assignments_created |-> st.created,
                  slots_unfilled |-> st.unfilled,
                  warnings |-> IF st.unfilled < WarningLimit THEN st.unfilled
                               ELSE WarningLimit]

\* the build over the stored assignments
BuildWith(lv, sid, clear_existing) == BuildOn(lv, assignments, sid, clear_existing)

BuildSchedule(sid, clear_existing) == BuildWith(leaves, sid, clear_existing)

(***************************************************************************)
(* Constraint validator (services/constraints.py).  A result carries the   *)
(* violations as a set of records; fields that the code leaves None are    *)
(* NULL.                                                                   *)
(***************************************************************************)
Violation(type, severity, doctor_id, center_id, shift_id, date) ==
    [type |-> type, severity |-> severity, doctor_id |-> doctor_id,
     center_id |-> center_id, shift_id |-> shift_id, date |-> date]

ValidationResult(violations) ==
    LET error_count == Cardinality({v \in violations : v.severity = "error"})
    IN  [is_valid |-> error_count = 0,
         violations |-> violations,
         error_count |-> error_count,
         warning_count |-> Cardinality({v \in violations : v.severity = "warning"})]

MaxHoursOf(doctor_id) ==
    IF doctors[doctor_id].nationality = "saudi" THEN SaudiCap ELSE NonSaudiCap

ValidateMonthlyHours(sid) ==
    LET rows == RowsOf(assignments, sid)
        total(d) == SumHours({a \in rows : a.doctor_id = d})
        withRows == {d \in DoctorIds : \E a \in rows : a.doctor_id = d}
    IN  {Violation("monthly_hours_exceeded", "error", d, NULL, NULL, NULL) :
            d \in {x \in withRows : total(x) > MaxHoursOf(x)}}
        \cup
        \* elif total_hours > max_hours * 0.9
        {Violation("monthly_hours_exceeded", "warning", d, NULL, NULL, NULL) :
            d \in {x \in withRows : /\ ~(total(x) > MaxHoursOf(x))
                                    /\ 10 * total(x) > 9 * MaxHoursOf(x)}}

\* faulty variant: only the first adjacent pair of a run is reported
ValidateConsecutiveShiftsFirstPair(sid) ==
    LET nights == {a \in RowsOf(assignments, sid) : Shifts[a.shift_id].is_overnight}
        has(d, dt) == \E b \in nights : b.doctor_id = d /\ b.date = dt
    IN  {Violation("consecutive_nights", "warning", a.doctor_id, NULL, NULL, a.date) :
            a \in {x \in nights : /\ has(x.doctor_id, x.date - 1)
                                    /\ ~has(x.doctor_id, x.date - 2)}}

ValidateConsecutiveShifts(sid) ==
    LET nights == {a \in RowsOf(assignments, sid) : Shifts[a.shift_id].is_overnight}
    IN  {Violation("consecutive_nights", "warning", a.doctor_id, NULL, NULL, a.date) :
            a \in {x \in nights : \E b \in nights : /\ b.doctor_id = x.doctor_id
                                                    /\ x.date - b.date = 1}}

ValidateCoverage(sid) ==
    LET sch == schedules[sid]
        mandatory == {t \in DOMAIN templates : templates[t].is_mandatory}
    IN  {Violation("insufficient_coverage", "error", NULL,
                   templates[slot[1]].center_id, templates[slot[1]].shift_id, slot[2]) :
            slot \in {x \in mandatory \X (MonthStart(sch)..MonthEnd(sch)) :
                        SlotCount(assignments, sid, templates[x[1]].center_id,
                                  templates[x[1]].shift_id, x[2])
                            < templates[x[1]].min_doctors}}

\* faulty variant: the schedule-wide leave rule is not run
ValidateLeaveConflictsSkipped(sid) == {}

ValidateLeaveConflicts(sid) ==
    {Violation("leave_conflict", "error", a.doctor_id, NULL, NULL, a.date) :
        a \in {x \in RowsOf(assignments, sid) : IsOnLeave(leaves, x.doctor_id, x.date)}}

ValidateDoubleBookings(sid) ==
    {Violation("double_booking", "error", a.doctor_id, NULL, NULL, a.date) :
        a \in {x \in RowsOf(assignments, sid) :
                 Cardinality({y \in RowsOf(assignments, sid) :
                                y.doctor_id = x.doctor_id /\ y.date = x.date}) > 1}}

ValidateCenterShifts(sid) ==
    {Violation("invalid_shift_for_center", "error", a.doctor_id, a.center_id,
               a.shift_id, a.date) :
        a \in {x \in RowsOf(assignments, sid) :
                 /\ x.center_id \in CenterIds
                 /\ x.shift_id \in ShiftIds
                 /\ Shifts[x.shift_id].code \notin Centers[x.center_id].allowed_shifts}}

ValidateSchedule(sid) ==
    IF sid \notin DOMAIN schedules
    THEN ValidationResult({Violation("insufficient_coverage", "error",
                                     NULL, NULL, NULL, NULL)})
    ELSE ValidationResult(ValidateMonthlyHours(sid)
                          \cup ValidateConsecutiveShifts(sid)
                          \cup ValidateCoverage(sid)
                          \cup ValidateLeaveConflicts(sid)
                          \cup ValidateDoubleBookings(sid)
                          \cup ValidateCenterShifts(sid))

\* _get_doctor_monthly_hours: every schedule of that year and month
GetDoctorMonthlyHours(doctor_id, year, month) ==
    SumHours({a \in assignments :
                /\ a.doctor_id = doctor_id
                /\ a.schedule_id \in DOMAIN schedules
                /\ schedules[a.schedule_id].year = year
                /\ schedules[a.schedule_id].month = month})

\* faulty variant: the shift is looked up in every center's list
ShiftNotAllowedAnywhere(center_id, shift_id) ==
    \A c \in CenterIds : Shifts[shift_id].code \notin Centers[c].allowed_shifts

\* shift.code not in (center.allowed_shifts or [])
ShiftNotAllowed(center_id, shift_id) ==
    Shifts[shift_id].code \notin Centers[center_id].allowed_shifts

ValidateAssignment(sid, doctor_id, center_id, shift_id, date) ==
    IF doctor_id \notin DoctorIds
    THEN ValidationResult({Violation("insufficient_coverage", "error",
                                     NULL, NULL, NULL, NULL)})
    ELSE LET known == center_id \in CenterIds /\ shift_id \in ShiftIds
             vShift ==
                IF known /\ ShiftNotAllowed(center_id, shift_id)
                THEN {Violation("invalid_shift_for_center", "error", doctor_id,
                                center_id, shift_id, date)}
                ELSE {}
             vLeave ==
                IF IsOnLeave(leaves, doctor_id, date)
                THEN {Violation("leave_conflict", "error", doctor_id, NULL, NULL, date)}
                ELSE {}
             vDouble ==
                IF \E a \in assignments : /\ a.schedule_id = sid
                                          /\ a.doctor_id = doctor_id
                                          /\ a.date = date
                THEN {Violation("double_booking", "error", doctor_id, NULL, NULL, date)}
                ELSE {}
             vNights ==
                IF /\ shift_id \in ShiftIds
                   /\ Shifts[shift_id].is_overnight
                   /\ \E a \in assignments : /\ a.schedule_id = sid
                                             /\ a.doctor_id = doctor_id
                                             /\ a.date = date - 1
                                             /\ Shifts[a.shift_id].is_overnight
                THEN {Violation("consecutive_nights", "warning", doctor_id,
                                NULL, NULL, date)}
                ELSE {}
             vHours ==
                IF /\ shift_id \in ShiftIds
                   /\ sid \in DOMAIN schedules
                   /\ GetDoctorMonthlyHours(doctor_id, schedules[sid].year,
                                            schedules[sid].month)
                        + Shifts[shift_id].hours > MaxHoursOf(doctor_id)
                THEN {Violation("monthly_hours_exceeded", "warning", doctor_id,
                                NULL, NULL, NULL)}
                ELSE {}
         IN  ValidationResult(vShift \cup vLeave \cup vDouble \cup vNights \cup vHours)

(***************************************************************************)
(* Initial states: empty draft schedules for 2025-02 and 2025-03, a catalog.*)
(* Doctor 1 is saudi, doctors 2 and 3 are not, doctor 3 is inactive.       *)
(* Template 3 asks for a shift that its center does not allow.             *)
(***************************************************************************)
Feb2025 == [year |-> 2025, month |-> 2]

ManualDates == {MonthStart(Feb2025) + k : k \in 1..MaxManualDay}

DoctorRows ==
    [d \in DoctorIds |-> [nationality |-> IF d = 1 THEN "saudi" ELSE "non_saudi",
                          is_active |-> d # 3]]

TemplateRows(m, man) ==
    [t \in 1..3 |->
        IF t = 1 THEN [center_id |-> 1, shift_id |-> 1, min_doctors |-> m,
                       is_mandatory |-> man[1]]
        ELSE IF t = 2 THEN [center_id |-> 1, shift_id |-> 2, min_doctors |-> 1,
                            is_mandatory |-> man[2]]
        ELSE [center_id |-> 2, shift_id |-> 2, min_doctors |-> 1,
              is_mandatory |-> man[3]]]

LeaveRow(st) ==
    [doctor_id |-> 2, status |-> st,
     start_date |-> MonthStart(Feb2025) + 1, end_date |-> MonthStart(Feb2025) + 2]

UserIds == {1, 2}

\* get_password_hash: distinct passwords are told apart by verify_password
GetPasswordHash(password) == <<"hash", password>>

\* no reset token yet, every user with the password set at registration, the
\* clock (datetime.utcnow(), in hours) at 1
InitAuth ==
    /\ tokens = {}
    /\ password_hash = [u \in UserIds |-> GetPasswordHash(0)]
    /\ clock = 1

InitStore ==
    /\ doctors = DoctorRows
    /\ schedules = [s \in ScheduleIds |->
                       [year |-> 2025, month |-> s + 1, status |-> "draft",
                        published_at |-> NULL, published_by_id |-> NULL]]
    /\ assignments = {}
    /\ response = [op |-> "none", code |-> NULL]
    /\ builds = 0
    /\ edits = 0
    /\ pc = [p \in {1, 2} |-> "idle"]
    /\ req = [p \in {1, 2} |-> NULL]
    /\ InitAuth

\* the catalog varies; a template that is not mandatory keeps min_doctors = 1
InitBuild ==
    /\ InitStore
    /\ \E man \in [1..3 -> BOOLEAN] :
          \E m \in (IF man[1] THEN 1..MaxMinDoctors ELSE {1}) :
              templates = TemplateRows(m, man)
    /\ \E st \in LeaveStatuses : leaves = {LeaveRow(st)}

\* one catalog: template 1 only, an approved leave
Init ==
    /\ InitStore
    /\ templates = TemplateRows(1, [t \in 1..3 |-> t = 1])
    /\ leaves = {LeaveRow("approved")}

(***************************************************************************)
(* /assignments (api/assignments.py), each request run to completion       *)
(***************************************************************************)
SameKey(a, b) ==
    a.schedule_id = b.schedule_id /\ a.doctor_id = b.doctor_id /\ a.date = b.date

\* POST /assignments
CreateAssignment(r) ==
    /\ edits < MaxEdits
    /\ edits' = edits + 1
    /\ IF \E a \in assignments : SameKey(a, r)
       THEN /\ response' = [op |-> "create_assignment", code |-> 400, request |-> r]
            /\ UNCHANGED assignments
       ELSE /\ assignments' = assignments \cup {r}
            /\ response' = [op |-> "create_assignment", code |-> 201, request |-> r]
    /\ UNCHANGED <<doctors, templates, leaves, schedules, builds, pc, req,
                   tokens, password_hash, clock>>

\* PATCH /assignments/{id}: center_id and shift_id are set when given (NULL: unset)
UpdateAssignment(a, center_id, shift_id) ==
    /\ edits < MaxEdits
    /\ edits' = edits + 1
    /\ IF a \notin assignments
       THEN /\ response' = [op |-> "update_assignment", code |-> 404, request |-> a]
            /\ UNCHANGED assignments
       ELSE LET b == [a EXCEPT !.center_id = IF center_id = NULL THEN @ ELSE center_id,
                               !.shift_id = IF shift_id = NULL THEN @ ELSE shift_id]
            IN  /\ assignments' = (assignments \ {a}) \cup {b}
                /\ response' = [op |-> "update_assignment", code |-> 200, request |-> a]
    /\ UNCHANGED <<doctors, templates, leaves, schedules, builds, pc, req,
                   tokens, password_hash, clock>>

\* DELETE /assignments/{id}
DeleteAssignment(a) ==
    /\ edits < MaxEdits
    /\ edits' = edits + 1
    /\ IF a \notin assignments
       THEN /\ response' = [op |-> "delete_assignment", code |-> 404, request |-> a]
            /\ UNCHANGED assignments
       ELSE /\ assignments' = assignments \ {a}
            /\ response' = [op |-> "delete_assignment", code |-> 204, request |-> a]
    /\ UNCHANGED <<doctors, templates, leaves, schedules, builds, pc, req,
                   tokens, password_hash, clock>>

(***************************************************************************)
(* POST /schedules/{id}/auto-build (api/schedules.py)                      *)
(***************************************************************************)
AutoBuild(sid, clear_existing) ==
    /\ builds < MaxBuilds
    /\ builds' = builds + 1
    /\ \E r \in {BuildSchedule(sid, clear_existing)} :
          IF ~r.dup /\ UniqueKeyHolds(r.db \cup r.added)
          THEN \* db.commit() of the build, or of the audit log after an early return
               /\ assignments' = r.db \cup r.added
               /\ response' = [op |-> "auto_build", code |-> 200,
                               schedule_id |-> sid,
                               clear_existing |-> clear_existing,
                               success |-> r.success,
                               assignments_created |-> r.assignments_created,
                               slots_unfilled |-> r.slots_unfilled,
                               warnings |-> r.warnings]
          ELSE \* IntegrityError at the commit: the transaction is rolled back
               /\ assignments' = assignments
               /\ response' = [op |-> "auto_build", code |-> 500,
                               schedule_id |-> sid,
                               clear_existing |-> clear_existing]
    /\ UNCHANGED <<doctors, templates, leaves, schedules, edits, pc, req,
                   tokens, password_hash, clock>>

(***************************************************************************)
(* GET /schedules/{id}/validate and POST /schedules/{id}/validate-assignment*)
(***************************************************************************)
ValidateScheduleRequest(sid) ==
    /\ response' = [op |-> "validate_schedule", code |-> 200, schedule_id |-> sid,
                    result |-> ValidateSchedule(sid)]
    /\ UNCHANGED <<doctors, templates, leaves, schedules, assignments, builds, edits,
                   pc, req,
                   tokens, password_hash, clock>>

ValidateAssignmentRequest(r) ==
    /\ response' = [op |-> "validate_assignment", code |-> 200, request |-> r,
                    result |-> ValidateAssignment(r.schedule_id, r.doctor_id,
                                                  r.center_id, r.shift_id, r.date)]
    /\ UNCHANGED <<doctors, templates, leaves, schedules, assignments, builds, edits,
                   pc, req,
                   tokens, password_hash, clock>>

(***************************************************************************)
(* Schedule life cycle (api/schedules.py).  A request for a schedule that  *)
(* does not exist is answered 404.                                         *)
(***************************************************************************)
Reply(op, code, sid) == [op |-> op, code |-> code, schedule_id |-> sid]

\* faulty variant: anything but a published schedule can be published
CanPublishUnlessPublished(status) == status # "published"

CanPublish(status) == status = "draft"

CanUnpublish(status) == status = "published"

CanArchive(status) == status # "archived"

CanUnarchive(status) == status = "archived"

Transition(op, sid, allowed, new) ==
    /\ IF sid \notin DOMAIN schedules
       THEN /\ response' = Reply(op, 404, sid)
            /\ UNCHANGED schedules
       ELSE IF ~allowed
       THEN /\ response' = Reply(op, 400, sid)
            /\ UNCHANGED schedules
       ELSE /\ schedules' = [schedules EXCEPT ![sid] = new]
            /\ response' = Reply(op, 200, sid)
    /\ UNCHANGED <<doctors, templates, leaves, assignments, builds, edits, pc, req,
                   tokens, password_hash, clock>>

PublishSchedule(sid, user, now) ==
    Transition("publish", sid,
               sid \in DOMAIN schedules /\ CanPublish(schedules[sid].status),
               [schedules[sid] EXCEPT !.status = "published",
                                      !.published_at = now,
                                      !.published_by_id = user])

UnpublishSchedule(sid) ==
    Transition("unpublish", sid,
               sid \in DOMAIN schedules /\ CanUnpublish(schedules[sid].status),
               [schedules[sid] EXCEPT !.status = "draft",
                                      !.published_at = NULL,
                                      !.published_by_id = NULL])

ArchiveSchedule(sid) ==
    Transition("archive", sid,
               sid \in DOMAIN schedules /\ CanArchive(schedules[sid].status),
               [schedules[sid] EXCEPT !.status = "archived"])

\* faulty variant: unarchive keeps the publication stamp
UnarchivedKeepsStamp(sch) == [sch EXCEPT !.status = "draft"]

\* status = DRAFT, published_at = None, published_by_id = None
Unarchived(sch) ==
    [sch EXCEPT !.status = "draft", !.published_at = NULL, !.published_by_id = NULL]

UnarchiveSchedule(sid) ==
    Transition("unarchive", sid,
               sid \in DOMAIN schedules /\ CanUnarchive(schedules[sid].status),
               Unarchived(schedules[sid]))

\* PATCH /schedules/{id}: status is set when the body gives one ("unset": not given)
UpdateSchedule(sid, status) ==
    Transition("update_schedule", sid, TRUE,
               [schedules[sid] EXCEPT !.status = IF status = "unset" THEN @ ELSE status])

(***************************************************************************)
(* Two clients posting an assignment at the same time: the SELECT and the  *)
(* INSERT + commit of create_assignment are separate steps, each client in *)
(* its own session.                                                        *)
(***************************************************************************)
Clients == {1, 2}

\* faulty variant: the table has no unique constraint
UniqueViolationNever(db, r) == FALSE

\* uq_schedule_doctor_date refuses the insert
UniqueViolation(db, r) == \E a \in db : SameKey(a, r)

InsertCheck(p, r) ==
    /\ pc[p] = "idle"
    /\ req' = [req EXCEPT ![p] = r]
    /\ pc' = [pc EXCEPT ![p] = IF \E a \in assignments : SameKey(a, r)
                                THEN "rejected" ELSE "checked"]
    /\ UNCHANGED <<doctors, templates, leaves, schedules, assignments, response,
                   builds, edits,
                   tokens, password_hash, clock>>

InsertCommit(p) ==
    /\ pc[p] = "checked"
    /\ IF UniqueViolation(assignments, req[p])
       THEN /\ pc' = [pc EXCEPT ![p] = "conflict"]
            /\ UNCHANGED assignments
       ELSE /\ pc' = [pc EXCEPT ![p] = "created"]
            /\ assignments' = assignments \cup {req[p]}
    /\ UNCHANGED <<doctors, templates, leaves, schedules, response, builds, edits, req,
                   tokens, password_hash, clock>>

(***************************************************************************)
(* Requests the model enumerates                                           *)
(***************************************************************************)
Row(sid, d, c, s, dt) ==
    [schedule_id |-> sid, doctor_id |-> d, center_id |-> c, shift_id |-> s, date |-> dt]

\* doctor, center, shift of the manual requests: an allowed shift for either
\* doctor, and a shift that its center does not allow
ManualRequests ==
    {Row(1, x[1], x[2], x[3], dt) :
        x \in {<<1, 1, 1>>, <<2, 1, 1>>, <<2, 2, 2>>}, dt \in ManualDates}

NextBuild ==
    \/ \E r \in ManualRequests : CreateAssignment(r)
    \/ \E clear \in BOOLEAN : AutoBuild(1, clear)
    \/ ValidateScheduleRequest(1)

SpecBuild == InitBuild /\ [][NextBuild]_vars

\* candidates of validate-assignment: also ids that no row has
CandidateRequests ==
    {Row(1, d, c, s, dt) :
        d \in {1, 2, 9}, c \in CenterIds \cup {9}, s \in ShiftIds \cup {9},
        dt \in {MonthStart(Feb2025) + k : k \in 0..(MaxManualDay + 2)}}

InitCandidate ==
    /\ InitStore
    /\ templates = TemplateRows(1, [t \in 1..3 |-> t = 1])
    /\ \E st \in LeaveStatuses : leaves = {LeaveRow(st)}

NextCandidate ==
    \/ \E r \in ManualRequests : CreateAssignment(r)
    \/ \E r \in CandidateRequests : ValidateAssignmentRequest(r)

SpecCandidate == InitCandidate /\ [][NextCandidate]_vars

InsertRequests ==
    {Row(sid, d, 1, s, dt) :
        sid \in ScheduleIds, d \in {1, 2}, s \in ShiftIds, dt \in ManualDates}

NextInsert ==
    \/ \E p \in Clients, r \in InsertRequests : InsertCheck(p, r)
    \/ \E p \in Clients : InsertCommit(p)

SpecInsert == Init /\ [][NextInsert]_vars

Next ==
    \/ \E u \in AdminIds, now \in 1..MaxTime : PublishSchedule(1, u, now)
    \/ UnpublishSchedule(1)
    \/ ArchiveSchedule(1)
    \/ UnarchiveSchedule(1)
    \/ \E st \in ScheduleStatuses \cup {"unset"} : UpdateSchedule(1, st)
    \/ \E sid \in {9} : PublishSchedule(sid, 1, 1) \/ ArchiveSchedule(sid)
    \/ \E r \in ManualRequests : CreateAssignment(r)
    \/ \E a \in ManualRequests, s \in ShiftIds : UpdateAssignment(a, NULL, s)
    \/ \E a \in ManualRequests : DeleteAssignment(a)
    \/ \E clear \in BOOLEAN : AutoBuild(1, clear)

Spec == Init /\ [][Next]_vars

(***************************************************************************)
(* Properties of the auto-builder and the validator (SpecBuild)            *)
(***************************************************************************)
BuildCommitted == response.op = "auto_build" /\ response.code = 200

HoursIn(db, sid, d) == SumHours({a \in db : a.schedule_id = sid /\ a.doctor_id = d})

CoverageMet(db, sid) ==
    \A t \in DOMAIN templates :
        templates[t].is_mandatory =>
            \A day \in MonthStart(schedules[sid])..MonthEnd(schedules[sid]) :
                SlotCount(db, sid, templates[t].center_id, templates[t].shift_id, day)
                    >= templates[t].min_doctors

\* C1: an auto-build always commits (it never proposes a second row for a
\* doctor and date that already has one, which the store would refuse), and
\* afterwards the schedule holds at most one assignment per doctor and date.
C1_NoDoubleBooking ==
    response.op = "auto_build" =>
        /\ response.code = 200
        /\ \A a, b \in RowsOf(assignments, 1) :
              (a.doctor_id = b.doctor_id /\ a.date = b.date) => a = b

\* a top-up build that added rows to a schedule holding a manual row
C1_Witness ==
    /\ BuildCommitted
    /\ ~response.clear_existing
    /\ response.assignments_created > 0
    /\ edits > 0
    /\ \E a \in ManualRequests : a \in assignments

\* C2: the rows an auto-build creates never fall inside an approved leave of
\* their doctor (both end dates included), and the build is exactly the one
\* made from the approved leaves alone: other leaves exclude nobody.
C2_BuildRespectsApprovedLeave ==
    [][(response'.op = "auto_build" /\ response'.code = 200) =>
          LET created == IF response'.clear_existing THEN RowsOf(assignments', 1)
                         ELSE assignments' \ assignments
          IN  /\ \A a \in created :
                    ~\E l \in leaves : /\ l.doctor_id = a.doctor_id
                                       /\ l.status = "approved"
                                       /\ l.start_date <= a.date
                                       /\ a.date <= l.end_date
              /\ \A approved \in {BuildWith({l \in leaves : l.status = "approved"}, 1,
                                            response'.clear_existing)} :
                    assignments' = approved.db \cup approved.added
       ]_vars

\* a build gave the doctor on approved leave some shifts, none on the leave days
C2_Witness ==
    /\ BuildCommitted
    /\ \E l \in leaves : /\ l.status = "approved"
                         /\ \E a \in assignments : a.doctor_id = l.doctor_id
                         /\ \E a \in assignments : /\ a.doctor_id # l.doctor_id
                                                   /\ a.date = l.end_date

\* C3: a build that returns success leaves every mandatory template covered
\* on every day of the month.
C3_SuccessMeansCovered ==
    (BuildCommitted /\ response.success) => CoverageMet(assignments, 1)

C3_Witness ==
    /\ BuildCommitted
    /\ response.success
    /\ response.assignments_created > 0
    /\ \E t \in DOMAIN templates : templates[t].is_mandatory

\* C4 as claimed: after a successful build, with or without clear_existing,
\* every doctor's hours in the schedule are within the doctor's cap.
C4_Original ==
    (BuildCommitted /\ response.success) =>
        \A d \in DoctorIds : HoursIn(assignments, 1, d) <= MaxHoursOf(d)

\* C4 amended: after a successful build every doctor's hours are within the
\* cap, provided the build cleared the schedule or the doctor's hours were
\* within the cap before the build.
C4_SuccessWithinCap ==
    [][(response'.op = "auto_build" /\ response'.code = 200 /\ response'.success) =>
          \A d \in DoctorIds :
              (response'.clear_existing \/ HoursIn(assignments, 1, d) <= MaxHoursOf(d))
                  => HoursIn(assignments', 1, d) <= MaxHoursOf(d)
       ]_vars

\* a successful build that stopped giving the saudi doctor shifts at the cap
C4_Witness ==
    /\ BuildCommitted
    /\ response.success
    /\ response.assignments_created > 0
    /\ \E d \in DoctorIds :
          /\ doctors[d].nationality = "saudi"
          /\ HoursIn(assignments, 1, d) <= SaudiCap
          /\ HoursIn(assignments, 1, d) + 12 > SaudiCap

\* C5: a schedule the validator calls valid has only shifts allowed at their
\* centers, no doctor twice on one date, no assignment inside an approved
\* leave, and every mandatory template covered on every day.
C5_ValidatorComplete ==
    (response.op = "validate_schedule" /\ response.result.is_valid) =>
        /\ \A a \in RowsOf(assignments, 1) :
              Shifts[a.shift_id].code \in Centers[a.center_id].allowed_shifts
        /\ \A a, b \in RowsOf(assignments, 1) :
              (a.doctor_id = b.doctor_id /\ a.date = b.date) => a = b
        /\ \A a \in RowsOf(assignments, 1) :
              ~\E l \in leaves : /\ l.doctor_id = a.doctor_id
                                 /\ l.status = "approved"
                                 /\ l.start_date <= a.date
                                 /\ a.date <= l.end_date
        /\ CoverageMet(assignments, 1)

\* a built schedule, with mandatory templates, that the validator calls valid
C5_Witness ==
    /\ response.op = "validate_schedule"
    /\ response.result.is_valid
    /\ builds > 0
    /\ assignments # {}
    /\ \E t \in DOMAIN templates : templates[t].is_mandatory

(***************************************************************************)
(* Properties of validate-assignment (SpecCandidate)                       *)
(***************************************************************************)
HasError(result, type) ==
    \E v \in result.violations : v.type = type /\ v.severity = "error"

DoubleBookingTrigger(r) ==
    \E a \in assignments : /\ a.schedule_id = r.schedule_id
                           /\ a.doctor_id = r.doctor_id
                           /\ a.date = r.date

LeaveTrigger(r) ==
    \E l \in leaves : /\ l.doctor_id = r.doctor_id
                      /\ l.status = "approved"
                      /\ l.start_date <= r.date
                      /\ r.date <= l.end_date

\* the shift and the center exist and the shift's code is not in the center's list
ShiftTrigger(r) ==
    /\ r.center_id \in CenterIds
    /\ r.shift_id \in ShiftIds
    /\ Shifts[r.shift_id].code \notin Centers[r.center_id].allowed_shifts

CandidateErrorsMatch(r, result) ==
    /\ HasError(result, "double_booking") <=> DoubleBookingTrigger(r)
    /\ HasError(result, "leave_conflict") <=> LeaveTrigger(r)
    /\ HasError(result, "invalid_shift_for_center") <=> ShiftTrigger(r)
    /\ (~DoubleBookingTrigger(r) /\ ~LeaveTrigger(r) /\ ~ShiftTrigger(r))
          => result.is_valid

\* C6 as claimed: for every candidate, each of the three errors is reported
\* exactly when its trigger holds, and a candidate with no trigger is valid.
C6_Original ==
    response.op = "validate_assignment" =>
        CandidateErrorsMatch(response.request, response.result)

\* C6 amended: for a candidate whose doctor exists, each of the three errors
\* is reported exactly when its trigger holds, and the candidate is valid
\* exactly when it has none of the triggers.
C6_CandidateErrors ==
    (response.op = "validate_assignment" /\ response.request.doctor_id \in DoctorIds) =>
        /\ CandidateErrorsMatch(response.request, response.result)
        /\ response.result.is_valid =>
              (/\ ~DoubleBookingTrigger(response.request)
               /\ ~LeaveTrigger(response.request)
               /\ ~ShiftTrigger(response.request))

\* a candidate of an existing doctor found with all three errors at once
C6_Witness ==
    /\ response.op = "validate_assignment"
    /\ response.request.doctor_id \in DoctorIds
    /\ response.result.error_count = 3
    /\ DoubleBookingTrigger(response.request)
    /\ LeaveTrigger(response.request)
    /\ ShiftTrigger(response.request)

(***************************************************************************)
(* Properties of the schedule life cycle and of editing (Spec)             *)
(***************************************************************************)
TransitionOps == {"publish", "unpublish", "archive", "unarchive"}

\* the statuses the operation may start from
AllowedFrom(op) ==
    CASE op = "publish"   -> {"draft"}
      [] op = "unpublish" -> {"published"}
      [] op = "archive"   -> {"draft", "published"}
      [] op = "unarchive" -> {"archived"}

\* C7: publish, unpublish, archive and unarchive of an existing schedule
\* succeed only from the statuses they are allowed from; from any other
\* status the answer is 400 and status, published_at and published_by_id
\* keep their values.
C7_TransitionGuards ==
    [][(response'.op \in TransitionOps /\ response'.schedule_id \in DOMAIN schedules) =>
          LET sid == response'.schedule_id
              allowed == schedules[sid].status \in AllowedFrom(response'.op)
          IN  /\ response'.code = 200 => allowed
              /\ ~allowed =>
                    /\ response'.code = 400
                    /\ schedules'[sid].status = schedules[sid].status
                    /\ schedules'[sid].published_at = schedules[sid].published_at
                    /\ schedules'[sid].published_by_id = schedules[sid].published_by_id
       ]_vars

\* publishing a published schedule was refused and the publication data kept
C7_Witness ==
    /\ response.op = "publish"
    /\ response.code = 400
    /\ response.schedule_id \in DOMAIN schedules
    /\ schedules[response.schedule_id].status = "published"
    /\ schedules[response.schedule_id].published_at # NULL
    /\ schedules[response.schedule_id].published_by_id # NULL

StatusEdges ==
    {<<"draft", "published">>, <<"published", "draft">>, <<"draft", "archived">>,
     <<"published", "archived">>, <<"archived", "draft">>}

\* C8 as claimed: whatever operation runs, the PATCH update included, a
\* schedule's status changes only along the edges of the state machine.
C8_StatusEdges ==
    [][\A sid \in DOMAIN schedules :
          schedules'[sid].status # schedules[sid].status =>
              <<schedules[sid].status, schedules'[sid].status>> \in StatusEdges
       ]_vars

EditOps == {"auto_build", "create_assignment", "update_assignment", "delete_assignment"}

\* C9 as claimed: on a published or archived schedule an auto-build, a
\* creation, an update or a deletion of an assignment is rejected and the
\* assignments stay as they are.
C9_EditsRequireDraft ==
    [][(response'.op \in EditOps /\ schedules[1].status # "draft") =>
          /\ response'.code >= 400
          /\ assignments' = assignments
       ]_vars

(***************************************************************************)
(* Properties of two concurrent inserts (SpecInsert)                       *)
(***************************************************************************)
Done(p) == pc[p] \in {"rejected", "conflict", "created"}

\* C10: no state stores two rows with the same (schedule_id, doctor_id,
\* date), and when two clients have finished inserting the same key, one
\* has created the row and the other was refused as a duplicate.
C10_OneSuccessOneFailure ==
    /\ UniqueKeyHolds(assignments)
    /\ (Done(1) /\ Done(2) /\ SameKey(req[1], req[2])) =>
          \E p \in Clients :
              /\ pc[p] = "created"
              /\ pc[3 - p] \in {"rejected", "conflict"}

\* both clients passed the check; the constraint refused the second insert
C10_Witness ==
    /\ Done(1) /\ Done(2)
    /\ SameKey(req[1], req[2])
    /\ \E p \in Clients : pc[p] = "created" /\ pc[3 - p] = "conflict"
    /\ Cardinality({a \in assignments : SameKey(a, req[1])}) = 1

(***************************************************************************)
(* Two auto-build requests for schedule 1 at the same time, each in its    *)
(* own session: the build (delete, flush, insert loop) works on the        *)
(* session's transaction and only the commit changes the stored rows.  The *)
(* second request arrives before the first has ended.                      *)
(***************************************************************************)
\* what the session holds when build_schedule reaches its commit
BuildTx(rows, sid, clear_existing) ==
    Only({ [schedule_id |-> sid, clear_existing |-> clear_existing,
            before |-> rows, deleted |-> rows \ r.db, added |-> r.added,
            dup |-> r.dup, success |-> r.success,
            assignments_created |-> r.assignments_created,
            slots_unfilled |-> r.slots_unfilled]
           : r \in {BuildOn(leaves, rows, sid, clear_existing)} })

BuildBegin(p, clear_existing) ==
    /\ pc[p] = "idle"
    /\ \A q \in Clients \ {p} : pc[q] \in {"idle", "built"}
    /\ req' = [req EXCEPT ![p] = BuildTx(assignments, 1, clear_existing)]
    /\ pc' = [pc EXCEPT ![p] = "built"]
    /\ UNCHANGED <<doctors, templates, leaves, schedules, assignments, response,
                   builds, edits,
                   tokens, password_hash, clock>>

\* faulty variant: the delete of a transaction that is rolled back stays
RolledBackKeepsDelete(db, tx) == db \ tx.deleted

\* the stored rows after the session is closed without a commit
RolledBack(db, tx) == db

\* the commit meets uq_schedule_doctor_date
CommitConflict(db, tx) ==
    tx.dup \/ \E a \in tx.added : UniqueViolation(db \ tx.deleted, a)

\* db.commit() of the build (or of the audit log after an early return)
BuildCommit(p) ==
    /\ pc[p] = "built"
    /\ IF CommitConflict(assignments, req[p])
       THEN /\ pc' = [pc EXCEPT ![p] = "failed"]
            /\ assignments' = RolledBack(assignments, req[p])
       ELSE /\ pc' = [pc EXCEPT ![p] = "committed"]
            /\ assignments' = (assignments \ req[p].deleted) \cup req[p].added
    /\ UNCHANGED <<doctors, templates, leaves, schedules, response, builds, edits, req,
                   tokens, password_hash, clock>>

\* the request dies before the commit: get_db closes the session
BuildCancel(p) ==
    /\ pc[p] = "built"
    /\ pc' = [pc EXCEPT ![p] = "cancelled"]
    /\ assignments' = RolledBack(assignments, req[p])
    /\ UNCHANGED <<doctors, templates, leaves, schedules, response, builds, edits, req,
                   tokens, password_hash, clock>>

\* the rows of a build of the empty schedule 1
FullBuild == BuildOn(leaves, {}, 1, FALSE).added

\* stored rows the requests start from: none, one manual row, a built
\* schedule, or a built schedule in which a manual row took the place of a
\* built row of the same doctor and date
StartRows ==
    {{}, FullBuild}
    \cup {{m} : m \in ManualRequests}
    \cup {(FullBuild \ {x}) \cup {m} :
            x \in FullBuild \cap ManualRequests,
            m \in {y \in ManualRequests : y \notin FullBuild}}

InitConcurrent ==
    /\ doctors = DoctorRows
    /\ schedules = [s \in ScheduleIds |->
                       [year |-> 2025, month |-> s + 1, status |-> "draft",
                        published_at |-> NULL, published_by_id |-> NULL]]
    /\ templates = TemplateRows(1, [t \in 1..3 |-> t = 1])
    /\ \E st \in {"approved", "pending"} : leaves = {LeaveRow(st)}
    /\ response = [op |-> "none", code |-> NULL]
    /\ builds = 0
    /\ edits = 0
    /\ pc = [p \in Clients |-> "idle"]
    /\ req = [p \in Clients |-> NULL]
    /\ InitAuth
    /\ assignments \in {S \in StartRows : UniqueKeyHolds(S)}

NextConcurrent ==
    \/ \E p \in Clients, clear \in BOOLEAN : BuildBegin(p, clear)
    \/ \E p \in Clients : BuildCommit(p)
    \/ \E p \in Clients : BuildCancel(p)

SpecConcurrent == InitConcurrent /\ [][NextConcurrent]_vars

(***************************************************************************)
(* Properties of concurrent and interrupted builds (SpecConcurrent)        *)
(***************************************************************************)
BuildEnded(p) == pc[p] \in {"committed", "failed"}

\* what a build that ran alone from the rows it read would have stored
SingleBuild(tx) == (tx.before \ tx.deleted) \cup tx.added

\* C11 as claimed: when two concurrent builds have both come to their
\* commit, one has committed and the other failed on the unique key, and
\* the stored rows are those of the committed build alone.
C11_OneBuildWins ==
    (BuildEnded(1) /\ BuildEnded(2)) =>
        \E p \in Clients :
            /\ pc[p] = "committed"
            /\ pc[3 - p] = "failed"
            /\ assignments = SingleBuild(req[p])

\* C12: a build that is cancelled, or that fails at its commit, changes no
\* stored row; when no other request ran meanwhile the stored rows are the
\* ones the call found, the rows it had deleted included.
C12_AllOrNothing ==
    [][\A p \in Clients :
          (pc[p] = "built" /\ pc'[p] \in {"failed", "cancelled"}) =>
              /\ assignments' = assignments
              /\ (pc[3 - p] \in {"idle", "cancelled", "failed"}) =>
                    assignments' = req[p].before
       ]_vars

\* a clearing build of a schedule that held rows was cancelled after its
\* delete and its inserts, and the rows are all there
C12_Witness ==
    \E p \in Clients : /\ pc[p] = "cancelled"
                       /\ pc[3 - p] = "idle"
                       /\ req[p].clear_existing
                       /\ req[p].deleted # {}
                       /\ req[p].added # {}
                       /\ req[p].added # req[p].deleted
                       /\ assignments = req[p].before

(***************************************************************************)
(* Further properties of the auto-builder (SpecBuild)                      *)
(***************************************************************************)
BuildStep == response'.op = "auto_build" /\ response'.code = 200 /\ builds' = builds + 1

C14_Idempotent ==
    [][(/\ BuildCommitted
        /\ response.clear_existing
        /\ BuildStep
        /\ response'.clear_existing) =>
          /\ assignments' = assignments
          /\ response'.assignments_created = response.assignments_created
          /\ response'.slots_unfilled = response.slots_unfilled
          /\ response'.success = response.success
       ]_vars

\* two builds and nothing else, the last one clearing, with rows and gaps
C14_Witness ==
    /\ BuildCommitted
    /\ response.clear_existing
    /\ builds = 2
    /\ edits = 0
    /\ response.assignments_created > 0
    /\ response.slots_unfilled > 0

\* C15 as claimed: every build of an existing schedule returns success
\* exactly when it returns slots_unfilled = 0.
C15_SuccessIffNoneUnfilled ==
    BuildCommitted => (response.success <=> response.slots_unfilled = 0)

\* C18: every row a build creates has a shift its center allows; a
\* mandatory template whose shift its center does not allow gets no row and
\* counts as unfilled on every day its slot is short.
C18_AllowedShiftsOnly ==
    [][BuildStep =>
          LET db == AfterClear(assignments, 1, response'.clear_existing)
              created == assignments' \ db
              sch == schedules[1]
          IN  /\ \A a \in created :
                    Shifts[a.shift_id].code \in Centers[a.center_id].allowed_shifts
              /\ \A t \in DOMAIN templates :
                    (/\ templates[t].is_mandatory
                     /\ Shifts[templates[t].shift_id].code
                           \notin Centers[templates[t].center_id].allowed_shifts) =>
                        /\ ~\E a \in created : /\ a.center_id = templates[t].center_id
                                               /\ a.shift_id = templates[t].shift_id
                        /\ response'.slots_unfilled >=
                              Cardinality({day \in MonthStart(sch)..MonthEnd(sch) :
                                  SlotCount(db, 1, templates[t].center_id,
                                            templates[t].shift_id, day)
                                      < templates[t].min_doctors})
       ]_vars

\* a build with a mandatory template of a shift its center does not allow:
\* other slots were filled, that one was counted unfilled
C18_Witness ==
    /\ BuildCommitted
    /\ response.assignments_created > 0
    /\ response.slots_unfilled > 0
    /\ \E t \in DOMAIN templates :
          /\ templates[t].is_mandatory
          /\ Shifts[templates[t].shift_id].code
                \notin Centers[templates[t].center_id].allowed_shifts
          /\ ~\E a \in assignments : /\ a.center_id = templates[t].center_id
                                     /\ a.shift_id = templates[t].shift_id

\* C19: a build without clear_existing keeps every stored row as it is and
\* only adds rows.
C19_TopUpPreserves ==
    [][(BuildStep /\ ~response'.clear_existing) =>
          /\ assignments \subseteq assignments'
          /\ Cardinality(assignments') =
                Cardinality(assignments) + response'.assignments_created
       ]_vars

\* a top-up added rows next to a manual row of a shift its center does not allow
C19_Witness ==
    /\ BuildCommitted
    /\ ~response.clear_existing
    /\ response.assignments_created > 0
    /\ \E a \in assignments :
          /\ a \in ManualRequests
          /\ Shifts[a.shift_id].code \notin Centers[a.center_id].allowed_shifts

(***************************************************************************)
(* Scenario catalogs: one or two active doctors of either nationality, one *)
(* mandatory template (C1 with M8, or C1 with the overnight N12), no       *)
(* leave; builds of both schedules (2025-02 with 28 days, 2025-03 with 31) *)
(***************************************************************************)
Nationalities == {"saudi", "non_saudi"}

ScenarioDoctors(n1, n2, both) ==
    [d \in DoctorIds |-> [nationality |-> IF d = 1 THEN n1 ELSE n2,
                          is_active |-> d = 1 \/ (d = 2 /\ both)]]

March2025 == [year |-> 2025, month |-> 3]

\* a manual overnight row of doctor 1 in schedule 2
ScenarioRequests ==
    {Row(2, 1, 1, 2, MonthStart(March2025) + k) : k \in 1..MaxManualDay}

InitScenario ==
    /\ \E n1 \in Nationalities, n2 \in Nationalities, both \in BOOLEAN :
          doctors = ScenarioDoctors(n1, n2, both)
    /\ \E shift \in ShiftIds : templates = TemplateRows(1, [t \in 1..3 |-> t = shift])
    /\ leaves = {}
    /\ schedules = [s \in ScheduleIds |->
                       [year |-> 2025, month |-> s + 1, status |-> "draft",
                        published_at |-> NULL, published_by_id |-> NULL]]
    /\ assignments = {}
    /\ response = [op |-> "none", code |-> NULL]
    /\ builds = 0
    /\ edits = 0
    /\ pc = [p \in Clients |-> "idle"]
    /\ req = [p \in Clients |-> NULL]
    /\ InitAuth

NextScenario ==
    \/ \E sid \in ScheduleIds, clear \in BOOLEAN : AutoBuild(sid, clear)
    \/ \E r \in ScenarioRequests : CreateAssignment(r)
    \/ \E sid \in ScheduleIds : ValidateScheduleRequest(sid)

SpecScenario == InitScenario /\ [][NextScenario]_vars

(***************************************************************************)
(* Properties of the scenarios (SpecScenario)                              *)
(***************************************************************************)
ClearingBuildOf(sid) ==
    /\ response.op = "auto_build"
    /\ response.code = 200
    /\ response.schedule_id = sid
    /\ response.clear_existing

\* S1: one active doctor, saudi; one mandatory template (C1, M8, 1)
S1Catalog ==
    /\ doctors[1].is_active /\ doctors[1].nationality = "saudi"
    /\ \A d \in DoctorIds \ {1} : ~doctors[d].is_active
    /\ \A t \in DOMAIN templates : templates[t].is_mandatory <=> t = 1
    /\ templates[1].min_doctors = 1

MonthlyHoursErrors(result) ==
    {v \in result.violations : v.type = "monthly_hours_exceeded" /\ v.severity = "error"}

\* C16 as claimed: in S1 the clearing build of the 31-day schedule creates
\* 31 assignments, leaves no slot unfilled and succeeds, and the validator
\* then reports monthly_hours_exceeded as an error.
C16_Original ==
    (S1Catalog /\ ClearingBuildOf(2)) =>
        /\ response.assignments_created = 31
        /\ response.slots_unfilled = 0
        /\ response.success
        /\ MonthlyHoursErrors(ValidateSchedule(2)) # {}

\* C16 amended: in S1 the clearing build of the 31-day schedule creates 20
\* assignments (160 hours, the cap), leaves 11 slots unfilled and does not
\* succeed; the validator then reports no monthly_hours_exceeded error, a
\* monthly_hours_exceeded warning, and 11 insufficient_coverage errors.
C16_S1StopsAtCap ==
    (S1Catalog /\ ClearingBuildOf(2)) =>
        /\ response.assignments_created = 20
        /\ response.slots_unfilled = 11
        /\ ~response.success
        /\ HoursIn(assignments, 2, 1) = SaudiCap
        /\ \A result \in {ValidateSchedule(2)} :
              /\ MonthlyHoursErrors(result) = {}
              /\ \E v \in result.violations : /\ v.type = "monthly_hours_exceeded"
                                              /\ v.severity = "warning"
                                              /\ v.doctor_id = 1
              /\ Cardinality({v \in result.violations :
                                 v.type = "insufficient_coverage"}) = 11

\* S1 was built, clearing a schedule that held a manual row
C16_Witness ==
    /\ S1Catalog
    /\ ClearingBuildOf(2)
    /\ edits > 0
    /\ Cardinality(RowsOf(assignments, 2)) = 20

\* S3: doctors 1 and 2 active with no hours and no leave, doctor 1 first,
\* one mandatory template of the overnight shift with min_doctors = 1
S3Catalog ==
    /\ doctors[1].is_active /\ doctors[2].is_active
    /\ \A t \in DOMAIN templates : templates[t].is_mandatory <=> t = 2
    /\ Shifts[templates[2].shift_id].is_overnight
    /\ templates[2].min_doctors = 1
    /\ leaves = {}

Alternates(sid) ==
    LET rows == RowsOf(assignments, sid)
        first == MonthStart(schedules[sid])
    IN  /\ \E a \in rows : a.date = first /\ a.doctor_id = 1
        /\ \E a \in rows : a.date = first + 1 /\ a.doctor_id = 2
        /\ \A a \in rows :
              a.doctor_id = IF (a.date - first) % 2 = 0 THEN 1 ELSE 2
        /\ \A a, b \in rows :
              a.doctor_id = b.doctor_id => b.date # a.date + 1

\* C17 as claimed: in S3 a clearing build gives day 1 to doctor 1 and day 2
\* to doctor 2, every filled day after that is doctor 1's when odd and
\* doctor 2's when even, and nobody has the overnight shift on two days in
\* a row.
C17_Original ==
    \A sid \in ScheduleIds :
        (S3Catalog /\ ClearingBuildOf(sid)) => Alternates(sid)

\* C17 amended: the same, for two doctors of the same nationality (the same
\* monthly cap).
C17_S3Alternates ==
    \A sid \in ScheduleIds :
        (/\ S3Catalog
         /\ doctors[1].nationality = doctors[2].nationality
         /\ ClearingBuildOf(sid)) => Alternates(sid)

\* S3 was built for the 31-day month with two saudi doctors: the last days
\* stayed unfilled, the filled ones alternate
C17_Witness ==
    /\ S3Catalog
    /\ doctors[1].nationality = "saudi"
    /\ doctors[2].nationality = "saudi"
    /\ ClearingBuildOf(2)
    /\ response.slots_unfilled > 0
    /\ Cardinality(RowsOf(assignments, 2)) > 20

\* C20: a clearing build leaves in its schedule exactly the rows it created
\* (as many as assignments_created, the rows a build of the empty schedule
\* creates, whatever the schedule held before) and does not touch the rows
\* of other schedules.
C20_ClearOnlyThisSchedule ==
    [][(BuildStep /\ response'.clear_existing) =>
          LET sid == response'.schedule_id
          IN  /\ Cardinality(RowsOf(assignments', sid)) = response'.assignments_created
              /\ {a \in assignments' : a.schedule_id # sid}
                    = {a \in assignments : a.schedule_id # sid}
              /\ \A fresh \in {BuildOn(leaves, {}, sid, FALSE)} :
                    RowsOf(assignments', sid) = fresh.added
       ]_vars

\* schedule 1 was built twice, the second time clearing, while schedule 2
\* held a manual row
C20_Witness ==
    /\ ClearingBuildOf(1)
    /\ builds = 2
    /\ response.assignments_created > 0
    /\ RowsOf(assignments, 2) # {}
    /\ RowsOf(assignments, 2) \subseteq ScenarioRequests

(***************************************************************************)
(* _find_best_doctor as a function of its inputs: the tallies of a stored  *)
(* schedule (as _init_tracking computes them, and as the loop keeps them   *)
(* for the rows it added), the list of active doctors in the order the     *)
(* query returned them, and the slot.                                      *)
(***************************************************************************)
\* the date of the slot: 2025-02-03, inside the leave of doctor 2
PickDate == MonthStart(Feb2025) + 2

\* rows of doctor d before the pick: day shifts on `load` days after the
\* 10th, and possibly one row next to or on the date of the slot
PickLoads == {0, 18, 19}

PickNear == {"none", "night_before", "night_after", "same_day"}

PickRows(d, load, near) ==
    {Row(1, d, 1, 1, MonthStart(Feb2025) + 9 + k) : k \in 1..load}
    \cup (IF near = "night_before" THEN {Row(1, d, 1, 2, PickDate - 1)}
          ELSE IF near = "night_after" THEN {Row(1, d, 1, 2, PickDate + 1)}
          ELSE IF near = "same_day" THEN {Row(1, d, 1, 1, PickDate)}
          ELSE {})

InitPick ==
    /\ \E n1 \in Nationalities, n2 \in Nationalities, both \in BOOLEAN :
          doctors = ScenarioDoctors(n1, n2, both)
    /\ templates = TemplateRows(1, [t \in 1..3 |-> t = 2])
    /\ \E st \in {"approved", "pending"} : leaves = {LeaveRow(st)}
    /\ schedules = [s \in ScheduleIds |->
                       [year |-> 2025, month |-> s + 1, status |-> "draft",
                        published_at |-> NULL, published_by_id |-> NULL]]
    /\ \E l1 \in PickLoads, l2 \in PickLoads, k1 \in PickNear, k2 \in PickNear :
          assignments = PickRows(1, l1, k1) \cup PickRows(2, l2, k2)
    /\ response = [op |-> "none", code |-> NULL]
    /\ builds = 0
    /\ edits = 0
    /\ pc = [p \in Clients |-> "idle"]
    /\ req = [p \in Clients |-> NULL]
    /\ InitAuth

\* every order in which the query can return the active doctors
DoctorLists ==
    LET active == {d \in DoctorIds : doctors[d].is_active}
    IN  {q \in UNION {[1..n -> active] : n \in 0..Cardinality(active)} :
            /\ Len(q) = Cardinality(active)
            /\ \A i, j \in 1..Len(q) : i # j => q[i] # q[j]}

FindBestDoctorCall(doctorList, center_id, shift_id) ==
    /\ response.op = "none"
    /\ response' = [op |-> "find_best_doctor", code |-> NULL,
                    doctorList |-> doctorList, center_id |-> center_id,
                    shift_id |-> shift_id, date |-> PickDate,
                    doctor |-> FindBestDoctor(leaves, doctorList, center_id, shift_id,
                                              PickDate, InitTracking(assignments, 1))]
    /\ UNCHANGED <<doctors, templates, leaves, schedules, assignments, builds, edits,
                   pc, req, tokens, password_hash, clock>>

NextPick ==
    \E doctorList \in DoctorLists, c \in CenterIds, s \in ShiftIds :
        FindBestDoctorCall(doctorList, c, s)

SpecPick == InitPick /\ [][NextPick]_vars

(***************************************************************************)
(* Properties of the candidate selection (SpecPick)                        *)
(***************************************************************************)
Picked == response.op = "find_best_doctor"

\* the doctors that pass the three filters for the slot of the response
Survivors ==
    {d \in DoctorIds :
        /\ doctors[d].is_active
        /\ ~\E a \in RowsOf(assignments, 1) : a.doctor_id = d /\ a.date = response.date
        /\ ~\E l \in leaves : /\ l.doctor_id = d
                              /\ l.status = "approved"
                              /\ l.start_date <= response.date
                              /\ response.date <= l.end_date
        /\ HoursIn(assignments, 1, d) + Shifts[response.shift_id].hours
              <= (IF doctors[d].nationality = "saudi" THEN SaudiCap ELSE NonSaudiCap)}

AdjacentNight(d) ==
    \E a \in RowsOf(assignments, 1) :
        /\ a.doctor_id = d
        /\ Shifts[a.shift_id].is_overnight
        /\ (a.date = response.date - 1 \/ a.date = response.date + 1)

\* C21: for an overnight slot, a doctor with an overnight assignment on the
\* day before or after is picked only when every doctor that survives the
\* filters has one.
C21_PenaltyDominates ==
    (Picked /\ Shifts[response.shift_id].is_overnight /\ response.doctor # NULL) =>
        (AdjacentNight(response.doctor) => \A d \in Survivors : AdjacentNight(d))

\* the doctor without an adjacent night wins although it has over 100 hours
\* more than a surviving doctor with one
C21_Witness ==
    /\ Picked
    /\ Shifts[response.shift_id].is_overnight
    /\ response.doctor # NULL
    /\ ~AdjacentNight(response.doctor)
    /\ \E d \in Survivors :
          /\ AdjacentNight(d)
          /\ HoursIn(assignments, 1, d) + 100 < HoursIn(assignments, 1, response.doctor)

SlotScore(d) ==
    HoursIn(assignments, 1, d)
    + (IF Shifts[response.shift_id].is_overnight /\ AdjacentNight(d)
       THEN ConsecutivePenalty ELSE 0)

\* C22: for a slot whose shift the center allows, the pick is none iff no
\* doctor passes the filters; otherwise it is the survivor of the lowest
\* score, the lowest doctor_id among equals, whatever the order in which
\* the doctors were loaded.
C22_LowestScoreThenId ==
    (Picked /\ Shifts[response.shift_id].code
                  \in Centers[response.center_id].allowed_shifts) =>
        /\ response.doctor = NULL <=> Survivors = {}
        /\ response.doctor # NULL =>
              /\ response.doctor \in Survivors
              /\ \A d \in Survivors :
                    \/ SlotScore(response.doctor) < SlotScore(d)
                    \/ /\ SlotScore(response.doctor) = SlotScore(d)
                       /\ response.doctor <= d

(***************************************************************************)
(* Slot accounting of the main loop (SpecBuild)                            *)
(***************************************************************************)
MandatorySlots(sid) ==
    {t \in DOMAIN templates : templates[t].is_mandatory}
        \X (MonthStart(schedules[sid])..MonthEnd(schedules[sid]))

Missing(db, sid, slot) ==
    LET t == templates[slot[1]]
        have == SlotCount(db, sid, t.center_id, t.shift_id, slot[2])
    IN  IF t.min_doctors > have THEN t.min_doctors - have ELSE 0

RECURSIVE SumMissing(_, _, _)
SumMissing(db, sid, slots) ==
    IF slots = {} THEN 0
    ELSE LET slot == CHOOSE x \in slots : TRUE
         IN  Missing(db, sid, slot) + SumMissing(db, sid, slots \ {slot})

\* the accounting of a build step against the rows `pre`
SlotAccounting(pre) ==
    /\ response'.assignments_created + response'.slots_unfilled
          = SumMissing(pre, 1, MandatorySlots(1))
    /\ \A c \in CenterIds, sh \in ShiftIds,
          day \in MonthStart(schedules[1])..MonthEnd(schedules[1]) :
          \A before \in {SlotCount(pre, 1, c, sh, day)},
             after \in {SlotCount(assignments', 1, c, sh, day)} :
             \A min \in {IF \E t \in DOMAIN templates :
                               /\ templates[t].is_mandatory
                               /\ templates[t].center_id = c
                               /\ templates[t].shift_id = sh
                         THEN templates[CHOOSE t \in DOMAIN templates :
                                           /\ templates[t].is_mandatory
                                           /\ templates[t].center_id = c
                                           /\ templates[t].shift_id = sh].min_doctors
                         ELSE 0} :
                /\ before >= min =>
                      ~\E a \in assignments' \ pre :
                          a.center_id = c /\ a.shift_id = sh /\ a.date = day
                /\ after <= (IF before > min THEN before ELSE min)

ReachesMainLoop ==
    /\ \E t \in DOMAIN templates : templates[t].is_mandatory
    /\ \E d \in DoctorIds : doctors[d].is_active

\* C23 as claimed: created + unfilled is the sum over the days and mandatory
\* templates of what the slot lacked before the build; a slot that had
\* min_doctors before the build gets no new row; no slot ends above the
\* larger of its count before the build and min_doctors.
C23_Original ==
    [][(BuildStep /\ ReachesMainLoop) => SlotAccounting(assignments)]_vars

\* C23 amended: the same, counting the rows the schedule holds when the loop
\* starts: those before the build without clear_existing, none with it.
C23_SlotAccounting ==
    [][(BuildStep /\ ReachesMainLoop) =>
          SlotAccounting(IF response'.clear_existing
                         THEN {a \in assignments : a.schedule_id # 1}
                         ELSE assignments)]_vars

\* a top-up build found a manual row in a slot of a template that asks for
\* two doctors, added what was missing and left some slot unfilled
C23_Witness ==
    /\ BuildCommitted
    /\ ~response.clear_existing
    /\ edits > 0
    /\ \E t \in DOMAIN templates : templates[t].is_mandatory /\ templates[t].min_doctors = 2
    /\ \E a \in ManualRequests : a \in assignments /\ a.center_id = 1 /\ a.shift_id = 1
    /\ response.assignments_created > 0
    /\ response.slots_unfilled > 0

(***************************************************************************)
(* Further properties of the validator                                     *)
(***************************************************************************)
Validated(sid) ==
    /\ response.op = "validate_schedule"
    /\ response.schedule_id = sid

MonthlyHoursOf(result, d, severity) ==
    {v \in result.violations : /\ v.type = "monthly_hours_exceeded"
                               /\ v.doctor_id = d
                               /\ v.severity = severity}

CapOf(d) == IF doctors[d].nationality = "saudi" THEN 160 ELSE 192

\* C24: validate_schedule reports for a doctor at most one
\* monthly_hours_exceeded violation: an error iff the doctor's hours in the
\* schedule exceed the cap (160 saudi, 192 otherwise), a warning iff they
\* are above 0.9 x cap and at most the cap, none otherwise; they are the only
\* severities.
C24_MonthlyHoursSeverity ==
    Validated(1) =>
        \A d \in DoctorIds :
            \A total \in {HoursIn(assignments, 1, d)} :
                /\ Cardinality({v \in response.result.violations :
                                   /\ v.type = "monthly_hours_exceeded"
                                   /\ v.doctor_id = d}) <= 1
                /\ MonthlyHoursOf(response.result, d, "error") # {}
                      <=> total > CapOf(d)
                /\ MonthlyHoursOf(response.result, d, "warning") # {}
                      <=> (10 * total > 9 * CapOf(d) /\ total <= CapOf(d))
                /\ MonthlyHoursOf(response.result, d, "info") = {}

\* one validation met the three cases: a doctor above the cap, a doctor
\* between 0.9 x cap and the cap, and a doctor without rows
C24_Witness ==
    /\ Validated(1)
    /\ \E d \in DoctorIds : MonthlyHoursOf(response.result, d, "error") # {}
    /\ \E d \in DoctorIds : MonthlyHoursOf(response.result, d, "warning") # {}
    /\ \E d \in DoctorIds :
          /\ HoursIn(assignments, 1, d) = 0
          /\ MonthlyHoursOf(response.result, d, "error") = {}
          /\ MonthlyHoursOf(response.result, d, "warning") = {}

NightDates(sid, d) ==
    {a.date : a \in {x \in RowsOf(assignments, sid) :
                        x.doctor_id = d /\ Shifts[x.shift_id].is_overnight}}

ConsecutiveNightsOf(result, d) ==
    {v \in result.violations : v.type = "consecutive_nights" /\ v.doctor_id = d}

\* C25: validate_schedule reports one consecutive_nights warning, dated the
\* second day, for every pair of adjacent dates on which the same doctor has
\* overnight assignments in the schedule, and no other: a run of k dates
\* gives k-1 warnings, dates that are not adjacent give none.
C25_EveryAdjacentPair ==
    \A sid \in ScheduleIds :
        Validated(sid) =>
            \A d \in DoctorIds :
                \A nights \in {NightDates(sid, d)} :
                    /\ {v.date : v \in ConsecutiveNightsOf(response.result, d)}
                          = {dt \in nights : dt - 1 \in nights}
                    /\ Cardinality(ConsecutiveNightsOf(response.result, d))
                          = Cardinality({dt \in nights : dt + 1 \in nights})
                    /\ \A v \in ConsecutiveNightsOf(response.result, d) :
                          v.severity = "warning"

\* a doctor with overnight assignments on three days in a row got two
\* warnings, and a doctor whose nights are never adjacent got none
C25_Witness ==
    \E sid \in ScheduleIds :
        /\ Validated(sid)
        /\ \E d \in DoctorIds : \E dt \in NightDates(sid, d) :
              /\ dt + 1 \in NightDates(sid, d)
              /\ dt + 2 \in NightDates(sid, d)
              /\ dt - 1 \notin NightDates(sid, d)
              /\ dt + 3 \notin NightDates(sid, d)
              /\ \A o \in NightDates(sid, d) \ {dt, dt + 1, dt + 2} :
                    o - 1 \notin NightDates(sid, d)
              /\ Cardinality(ConsecutiveNightsOf(response.result, d)) = 2
        /\ \E d \in DoctorIds :
              /\ NightDates(sid, d) # {}
              /\ ConsecutiveNightsOf(response.result, d) = {}

(***************************************************************************)
(* Candidate validation next to inserts and schedule validation: the       *)
(* schedule starts empty, built (overnight template), or with one manual   *)
(* overnight row; candidates are validated, inserted, and the schedule is  *)
(* validated.                                                              *)
(***************************************************************************)
AgreeDates == {MonthStart(Feb2025) + k : k \in 0..(MaxManualDay + 1)}

\* doctor, center, shift: a day shift, an overnight shift, and an overnight
\* shift at the center that does not allow it
AgreeSlots == {<<1, 1>>, <<1, 2>>, <<2, 2>>}

AgreeCandidates ==
    {Row(1, d, x[1], x[2], dt) : d \in {1, 2, 9}, x \in AgreeSlots, dt \in AgreeDates}

AgreeInserts ==
    {Row(1, d, x[1], x[2], dt) : d \in {1, 2}, x \in {<<1, 2>>, <<2, 2>>}, dt \in AgreeDates}

InitAgree ==
    /\ doctors = DoctorRows
    /\ templates = TemplateRows(1, [t \in 1..3 |-> t = 2])
    /\ \E st \in {"approved", "pending"} : leaves = {LeaveRow(st)}
    /\ schedules = [s \in ScheduleIds |->
                       [year |-> 2025, month |-> s + 1, status |-> "draft",
                        published_at |-> NULL, published_by_id |-> NULL]]
    /\ \E start \in {{}, BuildOn(leaves, {}, 1, FALSE).added}
                       \cup {{Row(1, d, 1, 2, MonthStart(Feb2025) + 1)} : d \in {1, 2}} :
          assignments = start
    /\ response = [op |-> "none", code |-> NULL]
    /\ builds = 0
    /\ edits = 0
    /\ pc = [p \in Clients |-> "idle"]
    /\ req = [p \in Clients |-> NULL]
    /\ InitAuth

NextAgree ==
    \/ \E r \in AgreeCandidates : ValidateAssignmentRequest(r)
    \/ \E r \in AgreeInserts : CreateAssignment(r)
    \/ ValidateScheduleRequest(1)

SpecAgree == InitAgree /\ [][NextAgree]_vars

(***************************************************************************)
(* Properties of the candidate validation (SpecAgree)                      *)
(***************************************************************************)
CandidateValidated == response.op = "validate_assignment"

\* the violation types whose trigger holds for the candidate r
Triggered(r) ==
    (IF /\ r.center_id \in CenterIds
        /\ r.shift_id \in ShiftIds
        /\ Shifts[r.shift_id].code \notin Centers[r.center_id].allowed_shifts
     THEN {"invalid_shift_for_center"} ELSE {})
    \cup
    (IF \E l \in leaves : /\ l.doctor_id = r.doctor_id
                          /\ l.status = "approved"
                          /\ l.start_date <= r.date
                          /\ r.date <= l.end_date
     THEN {"leave_conflict"} ELSE {})
    \cup
    (IF \E a \in RowsOf(assignments, r.schedule_id) :
           a.doctor_id = r.doctor_id /\ a.date = r.date
     THEN {"double_booking"} ELSE {})
    \cup
    (IF /\ r.shift_id \in ShiftIds
        /\ Shifts[r.shift_id].is_overnight
        /\ \E a \in RowsOf(assignments, r.schedule_id) :
              /\ a.doctor_id = r.doctor_id
              /\ a.date = r.date - 1
              /\ Shifts[a.shift_id].is_overnight
     THEN {"consecutive_nights"} ELSE {})
    \cup
    (IF /\ r.shift_id \in ShiftIds
        /\ r.doctor_id \in DoctorIds
        /\ HoursIn(assignments, r.schedule_id, r.doctor_id) + Shifts[r.shift_id].hours
              > CapOf(r.doctor_id)
     THEN {"monthly_hours_exceeded"} ELSE {})

ErrorTypes == {"invalid_shift_for_center", "leave_conflict", "double_booking"}

Accumulates ==
    /\ {v.type : v \in response.result.violations} = Triggered(response.request)
    /\ \A v \in response.result.violations :
          v.severity = IF v.type \in ErrorTypes THEN "error" ELSE "warning"
    /\ response.result.is_valid
          <=> ~\E v \in response.result.violations : v.severity = "error"

\* C26 as claimed: validate_candidate returns every violation whose trigger
\* holds, and the candidate is valid iff none of them is an error.
C26_Original == CandidateValidated => Accumulates

\* C26 amended: the same for a candidate whose doctor exists.
C26_Accumulates ==
    (CandidateValidated /\ response.request.doctor_id \in DoctorIds) => Accumulates

\* a candidate with all three errors at once
C26_Witness ==
    /\ CandidateValidated
    /\ ErrorTypes \subseteq {v.type : v \in response.result.violations}
    /\ ~response.result.is_valid

\* a candidate whose only issues are the two warnings is valid
C26_WitnessWarnings ==
    /\ CandidateValidated
    /\ {v.type : v \in response.result.violations}
          = {"consecutive_nights", "monthly_hours_exceeded"}
    /\ response.result.is_valid

\* the candidate just validated had no violation and is now inserted
InsertOfCleanCandidate ==
    /\ CandidateValidated
    /\ response.result.violations = {}
    /\ response'.op = "create_assignment"
    /\ response'.code = 201
    /\ response'.request = response.request

\* C29: when a candidate for which validate_candidate returned no violation
\* is inserted, validate_schedule reports for its doctor no consecutive_nights
\* warning and no error that it did not report before the insert.
C29_CandidateAgreesWithSchedule ==
    [][InsertOfCleanCandidate =>
          \A before \in {ValidateSchedule(1).violations},
             after \in {ValidateSchedule(1)'.violations} :
             \A v \in after \ before :
                 v.doctor_id = response.request.doctor_id =>
                     /\ v.type # "consecutive_nights"
                     /\ v.severity # "error"
       ]_vars

(***************************************************************************)
(* The early returns of the builder behind the endpoint (SpecBuild)        *)
(***************************************************************************)
\* C28: an auto-build request that creates nothing because there is no
\* mandatory template or no active doctor leaves the stored assignments as
\* they were, with clear_existing too.
C28_EarlyReturnKeepsRows ==
    [][(/\ BuildStep
        /\ ~ReachesMainLoop
        /\ ~response'.success
        /\ response'.assignments_created = 0) => assignments' = assignments]_vars

(***************************************************************************)
(* The life cycle through its four requests alone                          *)
(***************************************************************************)
NextLifecycle ==
    \/ \E sid \in ScheduleIds, u \in AdminIds, now \in 1..MaxTime :
          PublishSchedule(sid, u, now)
    \/ \E sid \in ScheduleIds : UnpublishSchedule(sid)
    \/ \E sid \in ScheduleIds : ArchiveSchedule(sid)
    \/ \E sid \in ScheduleIds : UnarchiveSchedule(sid)

SpecLifecycle == Init /\ [][NextLifecycle]_vars

\* C30: after any sequence of publish, unpublish, archive and unarchive
\* requests on schedules created as drafts, a published schedule has
\* published_at and published_by_id set and a draft has both null.
C30_PublicationStamp ==
    \A sid \in ScheduleIds :
        /\ schedules[sid].status = "published" =>
              /\ schedules[sid].published_at # NULL
              /\ schedules[sid].published_by_id # NULL
        /\ schedules[sid].status = "draft" =>
              /\ schedules[sid].published_at = NULL
              /\ schedules[sid].published_by_id = NULL

\* a schedule was unarchived into a draft, next to one that is published
C30_Witness ==
    /\ response = Reply("unarchive", 200, 1)
    /\ schedules[1].status = "draft"
    /\ schedules[2].status = "published"
    /\ schedules[2].published_by_id \in AdminIds

(***************************************************************************)
(* Password reset (api/auth.py, models/password_reset.py).  A token is     *)
(* named by the number of its row; the clock counts hours.                 *)
(***************************************************************************)
\* PasswordResetToken.is_valid
IsValid(t) == t.used_at = NULL /\ clock < t.expires_at

\* faulty variant: forgot_password leaves the earlier tokens alone
InvalidatedNone(toks, user_id) == toks

\* update used_at = utcnow() where user_id = user.id and used_at is null
Invalidated(toks, user_id) ==
    {IF t.user_id = user_id /\ t.used_at = NULL THEN [t EXCEPT !.used_at = clock] ELSE t
        : t \in toks}

\* POST /auth/forgot-password; user_id is NULL when no user has the email
ForgotPassword(user_id) ==
    /\ Cardinality(tokens) < MaxTokens
    /\ IF user_id = NULL
       THEN UNCHANGED tokens
       ELSE tokens' = Invalidated(tokens, user_id)
                        \cup {[token |-> Cardinality(tokens) + 1,
                               user_id |-> user_id,
                               expires_at |-> clock + TokenHours,
                               used_at |-> NULL]}
    /\ response' = [op |-> "forgot_password", code |-> 200, user_id |-> user_id]
    /\ UNCHANGED <<doctors, templates, leaves, schedules, assignments, builds, edits,
                   pc, req, password_hash, clock>>

\* POST /auth/reset-password
ResetPassword(token, new_password) ==
    /\ IF \E t \in tokens : t.token = token /\ IsValid(t)
       THEN LET t == CHOOSE x \in tokens : x.token = token
            IN  /\ password_hash' = [password_hash EXCEPT
                                        ![t.user_id] = GetPasswordHash(new_password)]
                /\ tokens' = (tokens \ {t}) \cup {[t EXCEPT !.used_at = clock]}
                /\ response' = [op |-> "reset_password", code |-> 200, token |-> token]
       ELSE /\ response' = [op |-> "reset_password", code |-> 400, token |-> token]
            /\ UNCHANGED <<tokens, password_hash>>
    /\ UNCHANGED <<doctors, templates, leaves, schedules, assignments, builds, edits,
                   pc, req, clock>>

\* an hour passes
Tick ==
    /\ clock < MaxClock
    /\ clock' = clock + 1
    /\ UNCHANGED <<doctors, templates, leaves, schedules, assignments, response, builds,
                   edits, pc, req, tokens, password_hash>>

Passwords == {1, 2}

NextReset ==
    \/ \E u \in UserIds \cup {NULL} : ForgotPassword(u)
    \/ \E token \in 1..(MaxTokens + 1), p \in Passwords : ResetPassword(token, p)
    \/ Tick

SpecReset == Init /\ [][NextReset]_vars

ValidTokensOf(toks, now, u) ==
    {t \in toks : t.user_id = u /\ t.used_at = NULL /\ now < t.expires_at}

\* C27: a reset succeeds exactly for a token that exists, is unused and is
\* not expired, and marks it used; a rejected reset (400) changes neither
\* the passwords nor the tokens; a used token stays used; and after every
\* request a user has at most one valid token.
C27_SingleUse ==
    [][/\ \A u \in UserIds : Cardinality(ValidTokensOf(tokens', clock', u)) <= 1
       /\ \A t \in tokens : t.used_at # NULL => t \in tokens'
       /\ response'.op = "reset_password" /\ response' # response =>
             \/ /\ response'.code = 200
                /\ \E t \in tokens :
                      /\ t.token = response'.token
                      /\ t.used_at = NULL
                      /\ clock < t.expires_at
                      /\ tokens' = (tokens \ {t}) \cup {[t EXCEPT !.used_at = clock]}
                      /\ \A u \in UserIds \ {t.user_id} :
                            password_hash'[u] = password_hash[u]
             \/ /\ response'.code = 400
                /\ ~\E t \in tokens :
                      /\ t.token = response'.token
                      /\ t.used_at = NULL
                      /\ clock < t.expires_at
                /\ password_hash' = password_hash
                /\ tokens' = tokens
      ]_vars

\* the second use of a token that had reset the password was rejected, and
\* the user's later token is the only valid one
C27_Witness ==
    /\ response.op = "reset_password"
    /\ response.code = 400
    /\ \E t \in tokens :
          /\ t.token = response.token
          /\ t.used_at # NULL
          /\ password_hash[t.user_id] # GetPasswordHash(0)
          /\ Cardinality({x \in tokens : x.user_id = t.user_id}) > 1
          /\ Cardinality(ValidTokensOf(tokens, clock, t.user_id)) = 1

====
